---- MODULE Spec2Model ----
(***************************************************************************)
(* A model of scripts/clearml_wrapper.py: one run of main(), from the      *)
(* import-time SDK probe to sys.exit, with every SDK and filesystem call   *)
(* of the five actions a step that either returns or raises.               *)
(***************************************************************************)
EXTENDS Integers, Sequences, FiniteSets, TLC

VARIABLES
    CLEARML_AVAILABLE,  \* line 24-28: whether `from clearml import ...` worked
    argv,               \* the command line, as given (None = flag absent)
    environ,            \* os.environ, restricted to the six CLEARML_* names
    pc,                 \* position of the run inside main() and the action
    args,               \* argparse's namespace (defaults applied)
    result,             \* the result envelope
    stdout,             \* lines printed on stdout
    stderr,             \* lines printed on stderr
    exit_code,          \* sys.exit status, NotExited while running
    calls,              \* SDK methods called so far, in order
    dataset,            \* local `dataset` / `new_dataset`
    parent_dataset,     \* local `parent_dataset` of create_version
    idx,                \* position of the `for input_path in input_paths` loop
    files_added,        \* local `files_added` / `files_downloaded` / `files`
    total_size,         \* local `total_size`
    file_entries,       \* local `file_entries` of get_dataset_info
    exc                 \* the call whose exception an `except` clause caught

vars == <<CLEARML_AVAILABLE, argv, environ, pc, args, result, stdout, stderr,
          exit_code, calls, dataset, parent_dataset, idx, files_added,
          total_size, file_entries, exc>>

----------------------------------------------------------------------------
(* Bounds of the model *)

\* longest list of --input-path flags on a command line
MaxPaths == 2
\* number of files of the fixture directory "big"
BigDirFiles == 21
\* longest file listing the SDK returns for a dataset
MaxListing == 52

(* Program constants *)

\* files_added[:20], files_downloaded[:20]
FilesLimit == 20
\* file_entries[:50]
InfoFilesLimit == 50
\* exit status of argparse's parser.error()
ArgparseErrorStatus == 2
None == "<None>"
Unset == "<unset>"

Min(a, b) == IF a < b THEN a ELSE b

\* Python truthiness of an Optional[str]
Truthy(s) == s # None /\ s # ""

\* Python truthiness of an Optional[List[str]]; argparse's action="append"
\* gives None or a non-empty list, and None is written <<>> here
TruthyList(l) == l # <<>>

JSON_START == "---CLEARML_JSON_START---"
JSON_END == "---CLEARML_JSON_END---"

----------------------------------------------------------------------------
(* The filesystem the run sees.  A node is [root, k]: k = 0 is the path    *)
(* named on the command line, k > 0 its descendants.                       *)

InputPathNames == {"f.txt", "d", "big", "fifo", "missing"}

Node(r, k) == [root |-> r, k |-> k]

\* pathlib.Path(input_path)
Path(input_path) == Node(input_path, 0)

\* number of descendants of a root
Descendants(r) ==
    CASE r = "d" -> 5
      [] r = "big" -> BigDirFiles
      [] OTHER -> 0

\* "file", "dir", "special" (a FIFO, a socket, a device) or "missing"
Kind(n) ==
    CASE n.root = "f.txt" -> "file"
      [] n.root = "fifo" -> "special"
      [] n.root = "missing" -> "missing"
      [] n.root = "big" -> IF n.k = 0 THEN "dir" ELSE "file"
      [] n.root = "d" ->
            CASE n.k \in {0, 3, 5} -> "dir"
              [] n.k \in {1, 4} -> "file"
              [] OTHER -> "special"
      [] OTHER -> "missing"

\* the directory a descendant sits in (k of the parent node)
ParentK(n) == IF n.root = "d" /\ n.k \in {4, 5} THEN 3 ELSE 0

\* st_size
StSize(n) ==
    CASE n.root = "f.txt" -> 7
      [] n.root = "big" -> n.k
      [] n.root = "d" -> 2 * n.k + 1
      [] OTHER -> 0

\* a bug exists could have: the existence check passes for every path
existsAlways(n) == TRUE

exists(n) == Kind(n) # "missing"
is_file(n) == Kind(n) = "file"
is_dir(n) == Kind(n) = "dir"

\* the entries of directory n, in directory order
ChildKs(n) == {k \in 1..Descendants(n.root) : ParentK(Node(n.root, k)) = n.k}

RECURSIVE SeqOfSet(_)
SeqOfSet(S) ==
    IF S = {} THEN <<>>
    ELSE LET m == CHOOSE x \in S : \A y \in S : x <= y
         IN  <<m>> \o SeqOfSet(S \ {m})

RECURSIVE rglob(_)
RECURSIVE rglobAll(_, _)
\* Path.rglob("*"): every entry below n, depth first
rglob(n) == rglobAll(n.root, SeqOfSet(ChildKs(n)))
rglobAll(r, ks) ==
    IF ks = <<>> THEN <<>>
    ELSE LET c == Node(r, Head(ks))
         IN  <<c>> \o (IF is_dir(c) THEN rglob(c) ELSE <<>>) \o rglobAll(r, Tail(ks))

\* the directory an input path sits in
Dirname(n) == Node(n.root, -1)

\* the record appended for a file given directly (lines 80-84); path.name is
\* the path relative to its own directory
FileRecord(n) == [path |-> n, name |-> [node |-> n, relative_to |-> Dirname(n)],
                  size |-> StSize(n)]

\* the record appended for a file found below directory `top` (lines 92-96)
DirFileRecord(n, top) == [path |-> n, name |-> [node |-> n, relative_to |-> top],
                          size |-> StSize(n)]

RECURSIVE SumSizes(_)
SumSizes(recs) == IF recs = <<>> THEN 0 ELSE Head(recs).size + SumSizes(Tail(recs))

\* a bug DirRecords could have: no is_file() test, every entry is recorded
DirRecordsNoIsFile(n) == [i \in 1..Len(rglob(n)) |-> DirFileRecord(rglob(n)[i], n)]

\* the records the inner loop appends for directory n (lines 89-97)
DirRecords(n) ==
    LET found == SelectSeq(rglob(n), is_file)
    IN  [i \in 1..Len(found) |-> DirFileRecord(found[i], n)]

\* files_added[:limit]
Truncate(s, limit) == SubSeq(s, 1, Min(Len(s), limit))

----------------------------------------------------------------------------
(* The command line and the environment *)

ActionChoices == {"create", "version", "download", "list", "info"}

RECURSIVE SeqsUpTo(_, _)
SeqsUpTo(S, n) ==
    IF n = 0 THEN {<<>>}
    ELSE LET shorter == SeqsUpTo(S, n - 1)
         IN  shorter \cup {Append(q, x) : q \in {t \in shorter : Len(t) = n - 1}, x \in S}

\* the --api-host, --web-host and --files-host flags tried: none given, all
\* given, only --web-host given
HostFlags ==
    {[api_host |-> None, web_host |-> None, files_host |-> None],
     [api_host |-> "https://api.given", web_host |-> "https://app.given",
      files_host |-> "https://files.given"],
     [api_host |-> None, web_host |-> "https://app.given", files_host |-> None]}

\* the command lines tried; None is a flag that was not given
AllCommandLines ==
    [action : ActionChoices \cup {"bogus"},
     access_key : {None, "AK"},
     secret_key : {None, "SK"},
     hosts : HostFlags,
     dataset_id : {None, "", "ds1"},
     dataset_name : {None, "", "nameA"},
     input_paths : SeqsUpTo(InputPathNames, MaxPaths),
     only_completed : BOOLEAN]

\* --input-path is tried with the actions that read it (and with an invalid
\* action), --only-completed with list
CommandLines ==
    {c \in AllCommandLines :
        /\ c.action \in {"download", "list", "info"} => c.input_paths = <<>>
        /\ c.action # "list" => ~c.only_completed}

EnvNames == {"CLEARML_API_HOST", "CLEARML_WEB_HOST", "CLEARML_FILES_HOST",
             "CLEARML_API_ACCESS_KEY", "CLEARML_API_SECRET_KEY",
             "CLEARML_CONFIG_FILE"}

\* the environment the process inherits: some names stale, some unset
InheritedEnviron ==
    [n \in EnvNames |->
        IF n \in {"CLEARML_API_HOST", "CLEARML_API_SECRET_KEY", "CLEARML_CONFIG_FILE"}
        THEN "stale" ELSE Unset]

\* value of a flag with a default
OrDefault(v, d) == IF v = None THEN d ELSE v

\* a bug StoreTrue could have: the default is store_true's usual False
StoreTrueDefaultFalse(given, default) == given

\* argparse's action="store_true" with a default: True when the flag is given,
\* the default when it is not
StoreTrue(given, default) == IF given THEN TRUE ELSE default

\* parser.parse_args(): the namespace of an accepted command line
Namespace(a) ==
    [action |-> a.action,
     api_host |-> OrDefault(a.hosts.api_host, "https://api.clear.ml"),
     web_host |-> OrDefault(a.hosts.web_host, "https://app.clear.ml"),
     files_host |-> OrDefault(a.hosts.files_host, "https://files.clear.ml"),
     access_key |-> a.access_key,
     secret_key |-> a.secret_key,
     dataset_id |-> a.dataset_id,
     dataset_name |-> a.dataset_name,
     \* --dataset-project and --output-path are given on no command line tried
     dataset_project |-> None,
     output_path |-> None,
     input_paths |-> a.input_paths,
     only_completed |-> StoreTrue(a.only_completed, TRUE)]

\* whether argparse accepts the command line
Accepted(a) ==
    /\ a.action \in ActionChoices
    /\ a.access_key # None
    /\ a.secret_key # None

NoArgs == [action |-> None]
NoResult == [success |-> FALSE, unset |-> TRUE]
NoDataset == [id |-> None, name |-> None, project |-> None]

\* a bug setup_credentials could have: CLEARML_CONFIG_FILE is left as inherited
setup_credentialsKeepsConfigFile(env, api_host, web_host, files_host, access_key, secret_key) ==
    [env EXCEPT !["CLEARML_API_HOST"] = api_host,
                !["CLEARML_WEB_HOST"] = web_host,
                !["CLEARML_FILES_HOST"] = files_host,
                !["CLEARML_API_ACCESS_KEY"] = access_key,
                !["CLEARML_API_SECRET_KEY"] = secret_key]

\* setup_credentials
setup_credentials(env, api_host, web_host, files_host, access_key, secret_key) ==
    [env EXCEPT !["CLEARML_API_HOST"] = api_host,
                !["CLEARML_WEB_HOST"] = web_host,
                !["CLEARML_FILES_HOST"] = files_host,
                !["CLEARML_API_ACCESS_KEY"] = access_key,
                !["CLEARML_API_SECRET_KEY"] = secret_key,
                !["CLEARML_CONFIG_FILE"] = ""]

\* os.environ.get('CLEARML_WEB_HOST', 'https://app.clear.ml') + /datasets/<id>
WebUrl(env, id) ==
    <<IF env["CLEARML_WEB_HOST"] = Unset THEN "https://app.clear.ml"
      ELSE env["CLEARML_WEB_HOST"], "/datasets/", id>>

\* an entry of the log of SDK calls
Call(m, a, ok) == [method |-> m, arg |-> a, ok |-> ok]

\* str(e) of the exception a call raises
StrExc(m) == <<"exception raised by ", m>>

\* the envelope of a failure
Failure(msg) == [success |-> FALSE, error |-> msg]

Init ==
    /\ CLEARML_AVAILABLE \in BOOLEAN
    /\ argv \in CommandLines
    /\ environ = InheritedEnviron
    /\ pc = "main"
    /\ args = NoArgs
    /\ result = NoResult
    /\ stdout = <<>>
    /\ stderr = <<>>
    /\ exit_code = -1
    /\ calls = <<>>
    /\ dataset = NoDataset
    /\ parent_dataset = NoDataset
    /\ idx = 0
    /\ files_added = <<>>
    /\ total_size = 0
    /\ file_entries = <<>>
    /\ exc = None

locals == <<dataset, parent_dataset, idx, files_added, total_size, file_entries>>

\* a line of output: a literal line, or json.dumps of an envelope
TextLine(t) == [kind |-> "text", text |-> t, indent |-> 0]
JsonLine(r, indent) == [kind |-> "json", envelope |-> r, indent |-> indent]

\* a bug MainSdkUnavailable could have: the envelope lacks installCommand
MainSdkUnavailableNoHint ==
    /\ pc = "main"
    /\ ~CLEARML_AVAILABLE
    /\ result' = [success |-> FALSE,
                  error |-> <<"ClearML SDK not installed. Install with: pip install clearml">>]
    /\ stdout' = Append(stdout, JsonLine(result', 0))
    /\ exit_code' = 1
    /\ pc' = "exited"
    /\ UNCHANGED <<CLEARML_AVAILABLE, argv, environ, args, stderr, calls, locals, exc>>

\* lines 369-376: the SDK could not be imported
MainSdkUnavailable ==
    /\ pc = "main"
    /\ ~CLEARML_AVAILABLE
    /\ result' = [success |-> FALSE,
                  error |-> <<"ClearML SDK not installed. Install with: pip install clearml">>,
                  installCommand |-> "pip install clearml"]
    /\ stdout' = Append(stdout, JsonLine(result', 0))
    /\ exit_code' = 1
    /\ pc' = "exited"
    /\ UNCHANGED <<CLEARML_AVAILABLE, argv, environ, args, stderr, calls, locals, exc>>

\* line 414: argparse rejects the command line, prints usage on stderr, exits 2
ParseArgsError ==
    /\ pc = "main"
    /\ CLEARML_AVAILABLE
    /\ ~Accepted(argv)
    /\ stderr' = Append(stderr, TextLine("usage"))
    /\ exit_code' = ArgparseErrorStatus
    /\ pc' = "exited"
    /\ UNCHANGED <<CLEARML_AVAILABLE, argv, environ, args, result, stdout, calls, locals, exc>>

\* lines 378-414
ParseArgs ==
    /\ pc = "main"
    /\ CLEARML_AVAILABLE
    /\ Accepted(argv)
    /\ args' = Namespace(argv)
    /\ pc' = "setup_credentials"
    /\ UNCHANGED <<CLEARML_AVAILABLE, argv, environ, result, stdout, stderr, exit_code,
                   calls, locals, exc>>

\* lines 417-423
SetupCredentials ==
    /\ pc = "setup_credentials"
    /\ environ' = setup_credentials(environ, args.api_host, args.web_host,
                                    args.files_host, args.access_key, args.secret_key)
    /\ pc' = "dispatch"
    /\ UNCHANGED <<CLEARML_AVAILABLE, argv, args, result, stdout, stderr, exit_code,
                   calls, locals, exc>>

\* a bug DispatchTarget could have: create and version are not validated
DispatchTargetUnvalidated(a) ==
    CASE a.action = "create" -> [pc |-> "create_dataset", result |-> NoResult]
      [] a.action = "version" -> [pc |-> "create_version", result |-> NoResult]
      [] a.action = "download" -> [pc |-> "download_dataset", result |-> NoResult]
      [] a.action = "list" -> [pc |-> "list_datasets", result |-> NoResult]
      [] OTHER -> [pc |-> "get_dataset_info", result |-> NoResult]

\* lines 426-476: where main goes for the parsed arguments; "emit" with the
\* envelope main builds itself, or the first step of the action function
DispatchTarget(a) ==
    CASE a.action = "create" ->
            IF ~Truthy(a.dataset_name)
            THEN [pc |-> "emit",
                  result |-> Failure(<<"Dataset name is required for create action">>)]
            ELSE IF ~TruthyList(a.input_paths)
            THEN [pc |-> "emit",
                  result |-> Failure(<<"At least one input path is required for create action">>)]
            ELSE [pc |-> "create_dataset", result |-> NoResult]
      [] a.action = "version" ->
            IF ~Truthy(a.dataset_id) /\ ~Truthy(a.dataset_name)
            THEN [pc |-> "emit",
                  result |-> Failure(<<"Dataset ID or name is required for version action">>)]
            ELSE IF ~TruthyList(a.input_paths)
            THEN [pc |-> "emit",
                  result |-> Failure(<<"At least one input path is required for version action">>)]
            ELSE [pc |-> "create_version", result |-> NoResult]
      [] a.action = "download" -> [pc |-> "download_dataset", result |-> NoResult]
      [] a.action = "list" -> [pc |-> "list_datasets", result |-> NoResult]
      [] a.action = "info" -> [pc |-> "get_dataset_info", result |-> NoResult]
      [] OTHER -> [pc |-> "emit", result |-> Failure(<<"Unknown action: ", a.action>>)]

Dispatch ==
    /\ pc = "dispatch"
    /\ pc' = DispatchTarget(args).pc
    /\ result' = DispatchTarget(args).result
    /\ UNCHANGED <<CLEARML_AVAILABLE, argv, environ, args, stdout, stderr, exit_code,
                   calls, locals, exc>>

\* a bug ExitStatus could have: the status does not follow `success`
ExitStatusAlwaysZero(r) == 0

\* sys.exit(0 if result.get("success") else 1)
ExitStatus(r) == IF r.success THEN 0 ELSE 1

\* lines 483-486
EmitResult ==
    /\ pc = "emit"
    /\ stdout' = stdout \o <<TextLine(JSON_START), JsonLine(result, 2), TextLine(JSON_END)>>
    /\ exit_code' = ExitStatus(result)
    /\ pc' = "exited"
    /\ UNCHANGED <<CLEARML_AVAILABLE, argv, environ, args, result, stderr, calls, locals, exc>>

----------------------------------------------------------------------------
(* The steps shared by the action functions *)

\* `return <envelope>` inside the `try` of an action function
Return(r) ==
    /\ result' = r
    /\ pc' = "emit"
    /\ exc' = exc

\* a call raises: the `except Exception as e` clause returns the failure
\* envelope of str(e) (lines 114-118, 210-214, 270-274, 307-311, 361-365)
Raise(m) ==
    /\ result' = Failure(StrExc(m))
    /\ pc' = "emit"
    /\ exc' = m

\* the function goes on to its next step
Continue(next_pc) ==
    /\ pc' = next_pc
    /\ result' = result
    /\ exc' = exc

\* the dataset Dataset.get finds
FoundDataset(a) ==
    IF Truthy(a.dataset_id)
    THEN [id |-> a.dataset_id, name |-> "stored-name", project |-> "stored-project"]
    ELSE [id |-> "found-id", name |-> a.dataset_name, project |-> "stored-project"]

GetOutcomes == {"ok", "none", "raises"}

\* lines 132-149, 226-243, 321-338: look the dataset up by id, else by name.
\* o is what Dataset.get does; the found dataset goes to `found`.
GetDataset(o, found, missing_msg, notfound_msg, next_pc) ==
    IF ~Truthy(args.dataset_id) /\ ~Truthy(args.dataset_name)
    THEN /\ o = "ok"
         /\ Return(Failure(<<missing_msg>>))
         /\ found' = found
         /\ calls' = calls
    ELSE LET by == IF Truthy(args.dataset_id) THEN "dataset_id" ELSE "dataset_name"
         IN  /\ calls' = Append(calls, Call("Dataset.get", by, o # "raises"))
             /\ CASE o = "ok" ->
                        /\ found' = FoundDataset(args)
                        /\ Continue(next_pc)
                  [] o = "none" ->
                        /\ found' = found
                        /\ Return(Failure(<<notfound_msg>>))
                  [] OTHER ->
                        /\ found' = found
                        /\ Raise("Dataset.get")

\* the handle Dataset.create returns
NewDataset(name, project) == [id |-> "new-id", name |-> name, project |-> project]

\* project or "datasets"
ProjectOrDefault(project) == IF Truthy(project) THEN project ELSE "datasets"

\* where the run goes after Dataset.create: into the loop when input_paths is
\* truthy (lines 67, 164), else straight to upload
AfterCreate(fn) == IF TruthyList(args.input_paths) THEN fn \o ".add_files" ELSE fn \o ".upload"

StageOutcomes == {"ok", "add_files raises", "filesystem raises"}

\* the records one input path contributes (lines 76-97, 173-192): the file
\* itself, every file below a directory, nothing for any other kind of path
Staged(p) ==
    IF is_file(p) THEN <<FileRecord(p)>>
    ELSE IF is_dir(p) THEN DirRecords(p)
    ELSE <<>>

\* whether the loop body calls add_files for the path (lines 76-78, 86-88)
AddsFiles(p) == is_file(p) \/ is_dir(p)

\* lines 68-97, 165-192: one iteration of `for input_path in input_paths`
StageInputPath(o, fn) ==
    LET input_path == args.input_paths[idx]
        path == Path(input_path)
        last == idx = Len(args.input_paths)
    IN  IF ~exists(path)
        THEN /\ o = "ok"
             /\ Return(Failure(<<"Path does not exist: ", input_path>>))
             /\ UNCHANGED <<calls, idx, files_added, total_size>>
        ELSE IF ~AddsFiles(path)
        THEN /\ o = "ok"
             /\ idx' = idx + 1
             /\ Continue(IF last THEN fn \o ".upload" ELSE pc)
             /\ UNCHANGED <<calls, files_added, total_size>>
        ELSE /\ calls' = Append(calls, Call("add_files", input_path, o # "add_files raises"))
             /\ IF o = "ok"
                THEN /\ files_added' = files_added \o Staged(path)
                     /\ total_size' = total_size + SumSizes(Staged(path))
                     /\ idx' = idx + 1
                     /\ Continue(IF last THEN fn \o ".upload" ELSE pc)
                ELSE /\ Raise(IF o = "add_files raises" THEN "add_files" ELSE "stat")
                     /\ UNCHANGED <<idx, files_added, total_size>>

\* lines 100, 195: dataset.upload()
Upload(ok, fn) ==
    /\ calls' = Append(calls, Call("upload", "", ok))
    /\ IF ok THEN Continue(fn \o ".finalize")
       ELSE Raise("upload")

\* a bug Finalize could have: an exception of finalize() is swallowed
FinalizeSwallows(ok, envelope) ==
    /\ calls' = Append(calls, Call("finalize", "", ok))
    /\ Return(envelope)

\* lines 101-112, 196-208: dataset.finalize() and the success envelope
Finalize(ok, envelope) ==
    /\ calls' = Append(calls, Call("finalize", "", ok))
    /\ IF ok THEN Return(envelope)
       ELSE Raise("finalize")

----------------------------------------------------------------------------
(* create_dataset *)

\* lines 103-112
CreateEnvelope ==
    [success |-> TRUE,
     datasetId |-> dataset.id,
     datasetName |-> args.dataset_name,
     datasetProject |-> ProjectOrDefault(args.dataset_project),
     filesAdded |-> Len(files_added),
     totalSize |-> total_size,
     files |-> Truncate(files_added, FilesLimit),
     webUrl |-> WebUrl(environ, dataset.id)]

\* lines 55-64
CreateDatasetCreate ==
    /\ pc = "create_dataset"
    /\ \E ok \in BOOLEAN :
        /\ calls' = Append(calls, Call("Dataset.create", args.dataset_name, ok))
        /\ IF ok
           THEN /\ dataset' = NewDataset(args.dataset_name, ProjectOrDefault(args.dataset_project))
                /\ files_added' = <<>>
                /\ total_size' = 0
                /\ idx' = 1
                /\ Continue(AfterCreate("create_dataset"))
           ELSE /\ Raise("Dataset.create")
                /\ UNCHANGED <<dataset, files_added, total_size, idx>>
    /\ UNCHANGED <<CLEARML_AVAILABLE, argv, environ, args, stdout, stderr, exit_code,
                   parent_dataset, file_entries>>

\* lines 68-97
CreateAddFiles ==
    /\ pc = "create_dataset.add_files"
    /\ \E o \in StageOutcomes : StageInputPath(o, "create_dataset")
    /\ UNCHANGED <<CLEARML_AVAILABLE, argv, environ, args, stdout, stderr, exit_code,
                   dataset, parent_dataset, file_entries>>

\* line 100
CreateUpload ==
    /\ pc = "create_dataset.upload"
    /\ \E ok \in BOOLEAN : Upload(ok, "create_dataset")
    /\ UNCHANGED <<CLEARML_AVAILABLE, argv, environ, args, stdout, stderr, exit_code,
                   locals>>

\* lines 101-112
CreateFinalize ==
    /\ pc = "create_dataset.finalize"
    /\ \E ok \in BOOLEAN : Finalize(ok, CreateEnvelope)
    /\ UNCHANGED <<CLEARML_AVAILABLE, argv, environ, args, stdout, stderr, exit_code,
                   locals>>

----------------------------------------------------------------------------
(* create_version *)

\* lines 198-208
VersionEnvelope ==
    [success |-> TRUE,
     datasetId |-> dataset.id,
     parentId |-> parent_dataset.id,
     datasetName |-> dataset.name,
     datasetProject |-> dataset.project,
     filesAdded |-> Len(files_added),
     totalSize |-> total_size,
     files |-> Truncate(files_added, FilesLimit),
     webUrl |-> WebUrl(environ, dataset.id)]

\* lines 132-149
VersionGetParent ==
    /\ pc = "create_version"
    /\ \E o \in GetOutcomes :
        GetDataset(o, parent_dataset, "Either parent_id or parent_name is required",
                   "Parent dataset not found", "create_version.create")
    /\ UNCHANGED <<CLEARML_AVAILABLE, argv, environ, args, stdout, stderr, exit_code,
                   dataset, idx, files_added, total_size, file_entries>>

\* lines 152-161
VersionCreate ==
    /\ pc = "create_version.create"
    /\ \E ok \in BOOLEAN :
        /\ calls' = Append(calls, Call("Dataset.create", parent_dataset.name, ok))
        /\ IF ok
           THEN /\ dataset' = NewDataset(parent_dataset.name, parent_dataset.project)
                /\ files_added' = <<>>
                /\ total_size' = 0
                /\ idx' = 1
                /\ Continue(AfterCreate("create_version"))
           ELSE /\ Raise("Dataset.create")
                /\ UNCHANGED <<dataset, files_added, total_size, idx>>
    /\ UNCHANGED <<CLEARML_AVAILABLE, argv, environ, args, stdout, stderr, exit_code,
                   parent_dataset, file_entries>>

\* lines 165-192
VersionAddFiles ==
    /\ pc = "create_version.add_files"
    /\ \E o \in StageOutcomes : StageInputPath(o, "create_version")
    /\ UNCHANGED <<CLEARML_AVAILABLE, argv, environ, args, stdout, stderr, exit_code,
                   dataset, parent_dataset, file_entries>>

\* line 195
VersionUpload ==
    /\ pc = "create_version.upload"
    /\ \E ok \in BOOLEAN : Upload(ok, "create_version")
    /\ UNCHANGED <<CLEARML_AVAILABLE, argv, environ, args, stdout, stderr, exit_code,
                   locals>>

\* lines 196-208
VersionFinalize ==
    /\ pc = "create_version.finalize"
    /\ \E ok \in BOOLEAN : Finalize(ok, VersionEnvelope)
    /\ UNCHANGED <<CLEARML_AVAILABLE, argv, environ, args, stdout, stderr, exit_code,
                   locals>>

----------------------------------------------------------------------------
(* download_dataset *)

\* the directories get_local_copy may hand back
LocalCopies == {"d", "missing"}

DownloadOutcomes == {"ok", "cwd raises", "get_local_copy raises", "filesystem raises"}

\* lines 250-259: the files found below the local copy
Downloaded(local_path) ==
    IF exists(Path(local_path)) THEN DirRecords(Path(local_path)) ELSE <<>>

\* lines 261-268
DownloadEnvelope(local_path, files_downloaded) ==
    [success |-> TRUE,
     datasetId |-> dataset.id,
     datasetName |-> dataset.name,
     localPath |-> local_path,
     filesDownloaded |-> Len(files_downloaded),
     files |-> Truncate(files_downloaded, FilesLimit)]

\* lines 226-243
DownloadGet ==
    /\ pc = "download_dataset"
    /\ \E o \in GetOutcomes :
        GetDataset(o, dataset, "Either dataset_id or dataset_name is required",
                   "Dataset not found", "download_dataset.get_local_copy")
    /\ UNCHANGED <<CLEARML_AVAILABLE, argv, environ, args, stdout, stderr, exit_code,
                   parent_dataset, idx, files_added, total_size, file_entries>>

\* lines 246-268
DownloadLocalCopy ==
    /\ pc = "download_dataset.get_local_copy"
    /\ \E o \in DownloadOutcomes, local_path \in LocalCopies :
        IF o = "cwd raises"
        THEN /\ ~Truthy(args.output_path)
             /\ Raise("Path.cwd")
             /\ UNCHANGED <<calls, files_added>>
        ELSE /\ calls' = Append(calls, Call("get_local_copy", "", o # "get_local_copy raises"))
             /\ CASE o = "ok" ->
                        /\ files_added' = Downloaded(local_path)
                        /\ Return(DownloadEnvelope(local_path, files_added'))
                  [] o = "get_local_copy raises" ->
                        /\ Raise("get_local_copy")
                        /\ UNCHANGED files_added
                  [] OTHER ->
                        /\ Raise("stat")
                        /\ UNCHANGED files_added
    /\ UNCHANGED <<CLEARML_AVAILABLE, argv, environ, args, stdout, stderr, exit_code,
                   dataset, parent_dataset, idx, total_size, file_entries>>

----------------------------------------------------------------------------
(* list_datasets *)

\* most datasets the SDK lists
MaxDatasets == 2

\* the records Dataset.list_datasets may return: one complete, one without
\* tags, created and version
DsInfos ==
    {[id |-> "a", name |-> "A", project |-> "p", tags |-> <<"t">>, created |-> "c",
      version |-> "1.0.0", status |-> "completed"],
     [id |-> "b", name |-> "B", project |-> "p"]}

\* ds_info.get(key, default)
DictGet(d, key, default) == IF key \in DOMAIN d THEN d[key] ELSE default

\* lines 292-299
Projected(ds_info) ==
    [id |-> DictGet(ds_info, "id", None),
     name |-> DictGet(ds_info, "name", None),
     project |-> DictGet(ds_info, "project", None),
     tags |-> DictGet(ds_info, "tags", <<>>),
     created |-> DictGet(ds_info, "created", None),
     version |-> DictGet(ds_info, "version", None)]

\* lines 301-305
ListEnvelope(datasets) ==
    LET dataset_list == [i \in 1..Len(datasets) |-> Projected(datasets[i])]
    IN  [success |-> TRUE, count |-> Len(dataset_list), datasets |-> dataset_list]

\* lines 284-311
ListDatasets ==
    /\ pc = "list_datasets"
    /\ \E ok \in BOOLEAN, datasets \in SeqsUpTo(DsInfos, MaxDatasets) :
        /\ calls' = Append(calls, Call("Dataset.list_datasets",
                                       IF args.only_completed THEN "only_completed=True"
                                       ELSE "only_completed=False", ok))
        /\ IF ok THEN Return(ListEnvelope(datasets))
           ELSE datasets = <<>> /\ Raise("Dataset.list_datasets")
    /\ UNCHANGED <<CLEARML_AVAILABLE, argv, environ, args, stdout, stderr, exit_code,
                   locals>>

----------------------------------------------------------------------------
(* get_dataset_info *)

\* the SDK's file listing of a dataset with n files
Listing(n) == [i \in 1..n |-> ToString(n + 1 - i)]

\* a bug Limited could have: the listing is not cut
LimitedNot(entries) == entries

\* file_entries[:50]
Limited(entries) == SubSeq(entries, 1, Min(Len(entries), InfoFilesLimit))

\* lines 344-347: the record of one entry; size is <<>> for None
InfoRecord(entry, has_get_file_size) ==
    [path |-> entry, size |-> IF has_get_file_size THEN <<"size of", entry>> ELSE <<>>]

\* lines 342-347
InfoFiles(entries, has_get_file_size) ==
    [i \in 1..Len(Limited(entries)) |-> InfoRecord(Limited(entries)[i], has_get_file_size)]

\* lines 349-359
InfoEnvelope(is_final) ==
    [success |-> TRUE,
     datasetId |-> dataset.id,
     datasetName |-> dataset.name,
     project |-> dataset.project,
     tags |-> <<>>,
     fileCount |-> Len(file_entries),
     files |-> files_added,
     isFinalized |-> is_final,
     webUrl |-> WebUrl(environ, dataset.id)]

InfoOutcomes == {"ok", "list_files raises", "first get_file_size raises",
                 "last get_file_size raises"}

\* lines 321-338
InfoGet ==
    /\ pc = "get_dataset_info"
    /\ \E o \in GetOutcomes :
        GetDataset(o, dataset, "Either dataset_id or dataset_name is required",
                   "Dataset not found", "get_dataset_info.list_files")
    /\ UNCHANGED <<CLEARML_AVAILABLE, argv, environ, args, stdout, stderr, exit_code,
                   parent_dataset, idx, files_added, total_size, file_entries>>

\* the get_file_size calls of the loop: all of them, or those up to the one
\* that raises
SizeCalls(entries, upto, raises) ==
    [i \in 1..upto |-> Call("get_file_size", entries[i], ~(raises /\ i = upto))]

\* lines 341-347
InfoListFiles ==
    /\ pc = "get_dataset_info.list_files"
    /\ \E o \in InfoOutcomes, n \in 0..MaxListing, has_get_file_size \in BOOLEAN :
        LET entries == Listing(n)
            m == Len(Limited(entries))
        IN  CASE o = "ok" ->
                    /\ calls' = Append(calls, Call("list_files", "", TRUE))
                                \o (IF has_get_file_size THEN SizeCalls(entries, m, FALSE)
                                    ELSE <<>>)
                    /\ file_entries' = entries
                    /\ files_added' = InfoFiles(entries, has_get_file_size)
                    /\ Continue("get_dataset_info.is_final")
              [] o = "list_files raises" ->
                    /\ n = 0 /\ has_get_file_size
                    /\ calls' = Append(calls, Call("list_files", "", FALSE))
                    /\ Raise("list_files")
                    /\ UNCHANGED <<file_entries, files_added>>
              [] OTHER ->
                    /\ has_get_file_size /\ m > 0
                    /\ o = "first get_file_size raises" => m > 1
                    /\ calls' = Append(calls, Call("list_files", "", TRUE))
                                \o SizeCalls(entries,
                                             IF o = "first get_file_size raises" THEN 1 ELSE m,
                                             TRUE)
                    /\ Raise("get_file_size")
                    /\ UNCHANGED <<file_entries, files_added>>
    /\ UNCHANGED <<CLEARML_AVAILABLE, argv, environ, args, stdout, stderr, exit_code,
                   dataset, parent_dataset, idx, total_size>>

\* lines 349-359
InfoIsFinal ==
    /\ pc = "get_dataset_info.is_final"
    /\ \E ok \in BOOLEAN, is_final \in BOOLEAN :
        /\ calls' = Append(calls, Call("is_final", "", ok))
        /\ IF ok THEN Return(InfoEnvelope(is_final))
           ELSE is_final /\ Raise("is_final")
    /\ UNCHANGED <<CLEARML_AVAILABLE, argv, environ, args, stdout, stderr, exit_code,
                   locals>>

----------------------------------------------------------------------------

Next ==
    \/ MainSdkUnavailable
    \/ ParseArgsError
    \/ ParseArgs
    \/ SetupCredentials
    \/ Dispatch
    \/ CreateDatasetCreate
    \/ CreateAddFiles
    \/ CreateUpload
    \/ CreateFinalize
    \/ VersionGetParent
    \/ VersionCreate
    \/ VersionAddFiles
    \/ VersionUpload
    \/ VersionFinalize
    \/ DownloadGet
    \/ DownloadLocalCopy
    \/ ListDatasets
    \/ InfoGet
    \/ InfoListFiles
    \/ InfoIsFinal
    \/ EmitResult

Spec == Init /\ [][Next]_vars

----------------------------------------------------------------------------
(* Properties *)

IsText(line, t) == line.kind = "text" /\ line.text = t
IsEnvelope(line) == line.kind = "json"

\* the positions of stdout that hold the literal line t
LinesOf(t) == {i \in DOMAIN stdout : IsText(stdout[i], t)}

\* the positions of stdout that hold an envelope
EnvelopeLines == {i \in DOMAIN stdout : IsEnvelope(stdout[i])}

Exited == pc = "exited"

\* C1: every run of main() that has terminated has printed exactly one
\* ---CLEARML_JSON_START--- line, then the result envelope, then exactly one
\* ---CLEARML_JSON_END--- line, whatever the arguments and the SDK's availability.
C1_MarkedEnvelopeAlways ==
    Exited =>
        /\ Cardinality(LinesOf(JSON_START)) = 1
        /\ Cardinality(LinesOf(JSON_END)) = 1
        /\ \E i \in DOMAIN stdout :
            /\ i + 2 \in DOMAIN stdout
            /\ IsText(stdout[i], JSON_START)
            /\ IsEnvelope(stdout[i + 1])
            /\ IsText(stdout[i + 2], JSON_END)

\* C2: a run that has printed a result envelope exits 0 exactly when the
\* envelope's success is true, and 1 otherwise.
C2_ExitCodeFollowsSuccess ==
    Exited /\ EnvelopeLines # {} =>
        \A i \in EnvelopeLines :
            /\ exit_code \in {0, 1}
            /\ exit_code = 0 <=> stdout[i].envelope.success

\* a run that printed a success envelope and one that printed a failure each
\* exited; the witness is the successful one
C2_Witness ==
    /\ Exited
    /\ EnvelopeLines # {}
    /\ result.success
    /\ exit_code = 0

\* the fields an action cannot do without are missing from the namespace
MissingRequired(a) ==
    CASE a.action = "create" -> ~Truthy(a.dataset_name) \/ a.input_paths = <<>>
      [] a.action = "version" ->
            (~Truthy(a.dataset_id) /\ ~Truthy(a.dataset_name)) \/ a.input_paths = <<>>
      [] a.action \in {"download", "info"} ->
            ~Truthy(a.dataset_id) /\ ~Truthy(a.dataset_name)
      [] OTHER -> FALSE

MissingArgumentMessages ==
    {<<"Dataset name is required for create action">>,
     <<"At least one input path is required for create action">>,
     <<"Dataset ID or name is required for version action">>,
     <<"At least one input path is required for version action">>,
     <<"Either dataset_id or dataset_name is required">>}

Parsed == args # NoArgs

StagingRun ==
    /\ Parsed
    /\ args.action \in {"create", "version"}
    /\ ~MissingRequired(args)

\* the positions of the input paths that do not exist
MissingAt(paths) == {i \in DOMAIN paths : Kind(Path(paths[i])) = "missing"}

\* the position of the first of them
FirstMissingAt(paths) == CHOOSE i \in MissingAt(paths) : \A j \in MissingAt(paths) : i <= j

\* whether an error message contains the text t
Contains(error, t) == \E i \in DOMAIN error : error[i] = t

\* whether the method has been called
Called(m) == \E i \in DOMAIN calls : calls[i].method = m

\* C4 as stated: with a nonexistent path among the input paths, create_dataset
\* and create_version return success:false with an error containing the first
\* nonexistent path, and never call upload() or finalize().
C4_ErrorNamesMissingPath ==
    StagingRun /\ MissingAt(args.input_paths) # {} =>
        /\ ~Called("upload")
        /\ ~Called("finalize")
        /\ pc \in {"emit", "exited"} =>
            /\ result.success = FALSE
            /\ Contains(result.error, args.input_paths[FirstMissingAt(args.input_paths)])

\* a step before the offending path failed: a call raised, or the parent
\* of create_version was not identified or not found
EarlierFailure ==
    \/ /\ exc \in {"Dataset.get", "Dataset.create", "add_files", "stat"}
       /\ result.error = StrExc(exc)
    \/ result.error \in {<<"Parent dataset not found">>,
                         <<"Either parent_id or parent_name is required">>}

\* C4, amended: with a nonexistent path among the input paths, the result is
\* success:false and upload() and finalize() are never called; add_files is
\* called only for paths before the first nonexistent one; and the error
\* contains the first nonexistent path unless an earlier step failed, in
\* which case it is that step's message.
C4_MissingPathFailsBeforeUpload ==
    StagingRun /\ MissingAt(args.input_paths) # {} =>
        /\ ~Called("upload")
        /\ ~Called("finalize")
        /\ \A i \in DOMAIN calls :
            calls[i].method = "add_files" =>
                \E j \in 1..(FirstMissingAt(args.input_paths) - 1) :
                    args.input_paths[j] = calls[i].arg
        /\ pc \in {"emit", "exited"} =>
            /\ result.success = FALSE
            /\ \/ EarlierFailure
               \/ Contains(result.error,
                           args.input_paths[FirstMissingAt(args.input_paths)])

\* an existing file was added, then the offending path was reported
C4_Witness ==
    /\ Exited
    /\ StagingRun
    /\ args.input_paths = <<"f.txt", "missing">>
    /\ Called("add_files")
    /\ result.error = <<"Path does not exist: ", "missing">>

\* what holds once a call has raised: the function has returned the failure
\* envelope of str(e), and main prints it between the markers and exits 1
CaughtAndReported ==
    exc # None =>
        /\ pc \in {"emit", "exited"}
        /\ result = Failure(StrExc(exc))
        /\ Exited =>
            /\ exit_code = 1
            /\ Len(stdout) = 3
            /\ IsText(stdout[1], JSON_START)
            /\ IsEnvelope(stdout[2]) /\ stdout[2].envelope = result
            /\ IsText(stdout[3], JSON_END)

\* an SDK call that raised is the last one of the run, and is the one caught
FailedCallIsLast ==
    \A i \in DOMAIN calls :
        ~calls[i].ok => i = Len(calls) /\ exc = calls[i].method

\* C5: an exception of any SDK or filesystem call of an action is not
\* propagated: the function returns {success:false, error:str(e)}, main prints
\* that envelope and exits 1, and no SDK call follows the failing one.
C5_ExceptionsBecomeFailureEnvelopes ==
    /\ [](CaughtAndReported /\ FailedCallIsLast)
    /\ [][exc # None => calls' = calls]_vars

\* upload() raised after files were added, and the run has exited
C5_Witness ==
    /\ Exited
    /\ exc = "upload"
    /\ Called("add_files")
    /\ exit_code = 1

\* C6: without the SDK, main prints a success:false envelope with an
\* installCommand field and exits 1, for every command line, having parsed no
\* argument, set no credential variable and dispatched no action.
C6_SdkUnavailableShortCircuits ==
    ~CLEARML_AVAILABLE =>
        /\ pc \in {"main", "exited"}
        /\ args = NoArgs
        /\ environ = InheritedEnviron
        /\ calls = <<>>
        /\ stderr = <<>>
        /\ Exited =>
            /\ result.success = FALSE
            /\ "installCommand" \in DOMAIN result
            /\ exit_code = 1
            /\ EnvelopeLines # {}
            /\ \A i \in EnvelopeLines : stdout[i].envelope = result

\* the command line is one the parser would have rejected
C6_Witness ==
    /\ Exited
    /\ ~CLEARML_AVAILABLE
    /\ ~Accepted(argv)
    /\ "installCommand" \in DOMAIN result

\* the regular files below an input directory, at any depth
RegularFilesBelow(input_path) ==
    {Node(input_path, k) : k \in {j \in 1..Descendants(input_path) : Kind(Node(input_path, j)) = "file"}}

\* the files an input path stands for
FilesOf(input_path) ==
    IF Kind(Path(input_path)) = "file" THEN {Path(input_path)}
    ELSE RegularFilesBelow(input_path)

RECURSIVE SizeOfAll(_)
SizeOfAll(nodes) ==
    IF nodes = {} THEN 0
    ELSE LET n == CHOOSE x \in nodes : TRUE
         IN  StSize(n) + SizeOfAll(nodes \ {n})

RECURSIVE CountOfAll(_)
CountOfAll(paths) ==
    IF paths = <<>> THEN 0
    ELSE Cardinality(FilesOf(Head(paths))) + CountOfAll(Tail(paths))

RECURSIVE BytesOfAll(_)
BytesOfAll(paths) ==
    IF paths = <<>> THEN 0
    ELSE SizeOfAll(FilesOf(Head(paths))) + BytesOfAll(Tail(paths))

\* create_dataset has returned its success envelope
CreateSucceeded ==
    /\ pc \in {"emit", "exited"}
    /\ Parsed
    /\ args.action = "create"
    /\ result.success

\* C7: a successful create_dataset over existing paths that are files or
\* directories reports in filesAdded one per file path plus every regular
\* file below each directory path, in totalSize the bytes of exactly those
\* files, and in files the first 20 of the records, however many there are.
C7_CountsCoverAllFiles ==
    /\ CreateSucceeded
    /\ \A i \in DOMAIN args.input_paths : Kind(Path(args.input_paths[i])) \in {"file", "dir"}
    =>
    /\ result.filesAdded = CountOfAll(args.input_paths)
    /\ result.totalSize = BytesOfAll(args.input_paths)
    /\ Len(result.files) = Min(result.filesAdded, FilesLimit)
    /\ \A i \in DOMAIN result.files : result.files[i] = files_added[i]

\* a file and a directory that together hold more than 20 files
C7_Witness ==
    /\ Exited
    /\ CreateSucceeded
    /\ Kind(Path(args.input_paths[1])) = "file"
    /\ Len(args.input_paths) > 1
    /\ Kind(Path(args.input_paths[2])) = "dir"
    /\ result.filesAdded > FilesLimit
    /\ Len(result.files) = FilesLimit

\* get_dataset_info has returned its success envelope
InfoSucceeded ==
    /\ pc \in {"emit", "exited"}
    /\ Parsed
    /\ args.action = "info"
    /\ result.success

\* C8: a successful get_dataset_info on a dataset whose listing has n entries
\* returns the first min(n, 50) of them, in order, in files, and n in fileCount.
C8_InfoListsFirstFifty ==
    InfoSucceeded =>
        /\ result.fileCount = Len(file_entries)
        /\ Len(result.files) = Min(Len(file_entries), InfoFilesLimit)
        /\ \A i \in DOMAIN result.files : result.files[i].path = file_entries[i]

\* a listing longer than 50 entries
C8_Witness ==
    /\ Exited
    /\ InfoSucceeded
    /\ result.fileCount > InfoFilesLimit
    /\ Len(result.files) = InfoFilesLimit

\* the environment the command line asks for
RequestedEnviron ==
    [n \in EnvNames |->
        CASE n = "CLEARML_API_HOST" -> OrDefault(argv.hosts.api_host, "https://api.clear.ml")
          [] n = "CLEARML_WEB_HOST" -> OrDefault(argv.hosts.web_host, "https://app.clear.ml")
          [] n = "CLEARML_FILES_HOST" -> OrDefault(argv.hosts.files_host, "https://files.clear.ml")
          [] n = "CLEARML_API_ACCESS_KEY" -> argv.access_key
          [] n = "CLEARML_API_SECRET_KEY" -> argv.secret_key
          [] OTHER -> ""]

\* C9: when an SDK method is called, the five credential variables hold the
\* values of the command line (or the defaults) and CLEARML_CONFIG_FILE is
\* empty, already before the first call, and they do not change afterwards.
C9_CredentialsSetBeforeSdk ==
    /\ [](calls # <<>> => environ = RequestedEnviron)
    /\ [][calls' # calls => environ = RequestedEnviron /\ environ' = environ]_vars
    /\ [][calls # <<>> => environ' = environ]_vars

\* an SDK method was called on a command line that gives one host only
C9_Witness ==
    /\ Exited
    /\ calls # <<>>
    /\ argv.hosts.api_host = None
    /\ argv.hosts.web_host # None
    /\ environ["CLEARML_CONFIG_FILE"] = ""

\* the calls of a complete create_dataset / create_version, after Dataset.create
CompleteStaging(paths) ==
    [i \in 1..Len(paths) |-> Call("add_files", paths[i], TRUE)]
        \o <<Call("upload", "", TRUE), Call("finalize", "", TRUE)>>

\* the dataset was created, add_files was called once per input path in the
\* order given, then upload() and then finalize() returned
FullyCompleted ==
    \E k \in DOMAIN calls :
        /\ calls[k].method = "Dataset.create"
        /\ calls[k].ok
        /\ SubSeq(calls, k + 1, Len(calls)) = CompleteStaging(args.input_paths)

\* C10: create_dataset and create_version report success only when the
\* dataset was created, add_files was called once for every input path in
\* order, upload() returned and then finalize() returned; every other outcome
\* is success:false; finalize() is never called unless upload() succeeded.
C10_SuccessOnlyIfFullyCompleted ==
    StagingRun =>
        /\ \A i \in DOMAIN calls :
            calls[i].method = "finalize" =>
                \E j \in 1..(i - 1) : calls[j].method = "upload" /\ calls[j].ok
        /\ pc \in {"emit", "exited"} => (result.success <=> FullyCompleted)

\* the calls of Dataset.list_datasets made so far
ListCalls == {i \in DOMAIN calls : calls[i].method = "Dataset.list_datasets"}

\* C11: every call of the SDK's list_datasets passes only_completed=True,
\* whether or not --only-completed is on the command line.
C11_OnlyCompletedAlwaysTrue ==
    \A i \in ListCalls : calls[i].arg = "only_completed=True"

\* the list action ran on a command line without --only-completed
C11_Witness ==
    /\ Exited
    /\ argv.action = "list"
    /\ ~argv.only_completed
    /\ ListCalls # {}
    /\ result.success

====
